---- MODULE Spec2Model ----
(***************************************************************************)
(* Stream control core of gomjpeg (src/unnamed/part_001): the Mjpeg        *)
(* session object, its public operations Start/Stop/Pause/Resume/          *)
(* ResetTimer, the supervisor goroutine startFetching, the reader          *)
(* goroutine decodeStream, the frame channel ImageStream, the status       *)
(* channel and the auto-stop timer.                                        *)
(*                                                                         *)
(* Goroutines are processes with a program counter.  The unbuffered        *)
(* channel internalCH is a rendezvous: a send completes in the step in     *)
(* which some goroutine receives it.  A Go run-time panic (close of a      *)
(* closed channel, send on a closed channel) ends the process: it is       *)
(* recorded in panicked and no action is enabled afterwards.               *)
(***************************************************************************)
EXTENDS Integers, Sequences, FiniteSets, TLC

\* ------------------------------------------------------------- bounds
MaxStarts == 2      \* calls of Start in one behaviour
MaxResets == 1      \* calls of ResetTimer in one behaviour
MaxFrames == 2      \* frames decoded in one behaviour
MaxPayload == 2     \* bytes of payload (Content-Length) of the part under scan

\* ---------------------------------------------------- program constants
ImageStreamCap == 1     \* make(chan image.Image, 1)
StatusChannelCap == 1   \* make(chan StatusCode, 1)

StatusCodes == {"Playing", "Stopped", "Error", "Paused"}
StreamControls == {"StartStream", "StopStream", "PauseStream", "ResumeStream"}

\* opts.AutoStopTimer as configured (-1 disables) and the arguments of ResetTimer
AutoStopChoices == {-1, 15}
ResetChoices == {-1, 20}

NilChan == 0    \* a nil channel / nil pointer
SupIds == 1 .. MaxStarts                  \* one startFetching goroutine per Start
ChanIds == 1 .. MaxStarts                 \* one ImageStream channel per Start
DecIds == 1 .. MaxStarts                  \* one decodeStream goroutine (and body) per successful GET
TimerIds == 1 .. (MaxStarts + MaxResets)  \* one time.Timer per AfterFunc
CallerId == 0                             \* the caller, as a sender on internalCH

VARIABLES
    statusCode,     \* m.statusCode
    statusChannel,  \* m.statusChannel: buffered, capacity 1
    ImageStream,    \* m.ImageStream: NilChan or the id of the current channel
    chans,          \* every frame channel made so far: open flag and buffer
    stopDecodeCh,   \* m.stopDecodeCh: "open" or "closed"
    wg,             \* m.wg: the WaitGroup counter
    sup,            \* the startFetching goroutines
    dec,            \* the decodeStream goroutines, each with its byte source
    bodyOpen,       \* response bodies (transport handles) not yet closed
    caller,         \* the caller's thread: position, command, state at the call
    timers,         \* every timer made so far: state and duration
    timer,          \* m.timer: 0 (nil) or the id of the timer the field points to
    opts,           \* m.opts.AutoStopTimer
    panicked,       \* "none", or the run-time panic that ended the process
    nFrames,        \* frames decoded so far (frame ids are 1 .. nFrames)
    nResets,        \* calls of ResetTimer so far
    scanner         \* one reader's byte source, bufio buffer and scan of the parts

vars == <<statusCode, statusChannel, ImageStream, chans, stopDecodeCh, wg, sup, dec,
          bodyOpen, caller, timers, timer, opts, panicked, nFrames, nResets, scanner>>

\* -------------------------------------------------------------- helpers
NumStarts == Cardinality({s \in SupIds : sup[s].pc # "none"})
NumDecoders == Cardinality({d \in DecIds : dec[d].pc # "none"})
NumTimers == Cardinality({t \in TimerIds : timers[t].st # "none"})

LiveSups == {s \in SupIds : sup[s].pc \notin {"none", "done"}}
LiveDecs == {d \in DecIds : dec[d].pc \notin {"none", "done"}}
ArmedTimers == {t \in TimerIds : timers[t].st = "armed"}

\* The caller between two calls.  While a call is in progress: its position,
\* the command, the status code at the time of the call and the argument of
\* ResetTimer.
Idle == [pc |-> "idle", cmd |-> "none", at |-> "none", arg |-> 0]

\* Goroutines blocked in a send on internalCH, and what each sends.
Senders ==
    (IF caller.pc = "send" THEN {CallerId} ELSE {})
        \cup {t \in TimerIds : timers[t].st = "sending"}

SenderCmd(w) == IF w = CallerId THEN caller.cmd ELSE "StopStream"

\* The send of w completes: Start/Stop/Pause/Resume returns to its caller.
SendCompletes(w) ==
    IF w = CallerId
        THEN /\ caller' = Idle
             /\ UNCHANGED timers
        ELSE /\ timers' = [timers EXCEPT ![w].st = "done"]
             /\ UNCHANGED caller

\* time.AfterFunc(d, func() { m.Stop() }); m.timer = it
NewTimer(ts) ==
    /\ timers' = [ts EXCEPT ![NumTimers + 1] = [st |-> "armed", dur |-> opts']]
    /\ timer' = NumTimers + 1

setStatusCode(s) ==
    /\ statusCode' = s
    /\ statusChannel' = IF Len(statusChannel) < StatusChannelCap
                            THEN Append(statusChannel, s)
                            ELSE statusChannel

\* ----------------------------------------------------------------- Init
\* The scan of the bytes is not followed (the session specifications take
\* the outcome of each pass of the reader from ReadOutcomes).
ScannerOff == [pc |-> "off"]

\* NewMjpeg + init(): channels made, statusCode Stopped and published.
NewMjpeg ==
    /\ statusCode = "Stopped"
    /\ statusChannel = <<"Stopped">>
    /\ ImageStream = NilChan
    /\ chans = [c \in ChanIds |-> [open |-> FALSE, buf |-> <<>>]]
    /\ stopDecodeCh = "open"
    /\ wg = 0
    /\ sup = [s \in SupIds |-> [pc |-> "none", cmd |-> "none", res |-> 0]]
    /\ dec = [d \in DecIds |-> [pc |-> "none", cmd |-> "none", timerStarted |-> FALSE,
                                frame |-> 0, src |-> "open"]]
    /\ bodyOpen = {}
    /\ caller = Idle
    /\ timers = [t \in TimerIds |-> [st |-> "none", dur |-> 0]]
    /\ timer = 0
    /\ opts \in AutoStopChoices
    /\ panicked = "none"
    /\ nFrames = 0
    /\ nResets = 0

Init == NewMjpeg /\ scanner = ScannerOff

CallerFree == panicked = "none" /\ caller.pc = "idle"

\* ---------------------------------------------------- public operations
\* Start, first statement: if m.ImageStream != nil { close(m.ImageStream) }
Start_close ==
    /\ CallerFree
    /\ NumStarts < MaxStarts
    /\ caller' = [pc |-> "start_make", cmd |-> "StartStream", at |-> statusCode, arg |-> 0]
    /\ IF ImageStream # NilChan
           THEN IF chans[ImageStream].open
                    THEN /\ chans' = [chans EXCEPT ![ImageStream].open = FALSE]
                         /\ UNCHANGED panicked
                    ELSE /\ panicked' = "Start: close of closed channel"
                         /\ UNCHANGED chans
           ELSE UNCHANGED <<chans, panicked>>
    /\ UNCHANGED <<scanner, statusCode, statusChannel, ImageStream, stopDecodeCh, wg, sup, dec,
                   bodyOpen, timers, timer, opts, nFrames, nResets>>

\* Start: m.ImageStream = make(chan image.Image, 1); go m.startFetching();
\* then the caller blocks in m.internalCH <- StartStream.
Start_spawn ==
    /\ panicked = "none"
    /\ caller.pc = "start_make"
    /\ LET c == NumStarts + 1 IN
        /\ ImageStream' = c
        /\ chans' = [chans EXCEPT ![c] = [open |-> TRUE, buf |-> <<>>]]
        /\ sup' = [sup EXCEPT ![c] = [pc |-> "select", cmd |-> "none", res |-> 0]]
    /\ caller' = [caller EXCEPT !.pc = "send"]
    /\ UNCHANGED <<scanner, statusCode, statusChannel, stopDecodeCh, wg, dec, bodyOpen, timers,
                   timer, opts, panicked, nFrames, nResets>>

\* Stop / Pause / Resume: m.internalCH <- cmd (the caller blocks until received).
Command(cmd) ==
    /\ CallerFree
    /\ cmd \in {"StopStream", "PauseStream", "ResumeStream"}
    /\ caller' = [pc |-> "send", cmd |-> cmd, at |-> statusCode, arg |-> 0]
    /\ UNCHANGED <<scanner, statusCode, statusChannel, ImageStream, chans, stopDecodeCh, wg, sup,
                   dec, bodyOpen, timers, timer, opts, panicked, nFrames, nResets>>

Stop == Command("StopStream")
Pause == Command("PauseStream")
Resume == Command("ResumeStream")

\* ResetTimer, first statement: if m.timer != nil { m.timer.Stop() }
ResetTimer_stop(duration) ==
    /\ CallerFree
    /\ nResets < MaxResets
    /\ nResets' = nResets + 1
    /\ caller' = [pc |-> "reset_arm", cmd |-> "ResetTimer", at |-> statusCode, arg |-> duration]
    /\ timers' = IF timer # 0 /\ timers[timer].st = "armed"
                     THEN [timers EXCEPT ![timer] = [st |-> "stopped", dur |-> 0]]
                     ELSE timers
    /\ UNCHANGED <<scanner, statusCode, statusChannel, ImageStream, chans, stopDecodeCh, wg, sup,
                   dec, bodyOpen, timer, opts, panicked, nFrames>>

\* ResetTimer, rest: if duration > 0 { opts.AutoStopTimer = duration };
\* m.timer = time.AfterFunc(opts.AutoStopTimer seconds, m.Stop)
ResetTimer_arm ==
    /\ panicked = "none"
    /\ caller.pc = "reset_arm"
    /\ opts' = IF caller.arg > 0 THEN caller.arg ELSE opts
    /\ NewTimer(timers)
    /\ caller' = Idle
    /\ UNCHANGED <<scanner, statusCode, statusChannel, ImageStream, chans, stopDecodeCh, wg, sup,
                   dec, bodyOpen, panicked, nFrames, nResets>>

\* The timer expires: its callback runs m.Stop() in a goroutine of its own,
\* which blocks in m.internalCH <- StopStream.
TimerFire(t) ==
    /\ panicked = "none"
    /\ timers[t].st = "armed"
    /\ timers' = [timers EXCEPT ![t] = [st |-> "sending", dur |-> 0]]
    /\ UNCHANGED <<scanner, statusCode, statusChannel, ImageStream, chans, stopDecodeCh, wg, sup,
                   dec, bodyOpen, caller, timer, opts, panicked, nFrames, nResets>>

\* ------------------------------------------- startFetching (supervisor)
\* select { case control := <-m.internalCH: ... }: the receive itself.
startFetching_recv(s, w) ==
    /\ panicked = "none"
    /\ sup[s].pc = "select"
    /\ w \in Senders
    /\ sup' = [sup EXCEPT ![s].pc = "handle", ![s].cmd = SenderCmd(w)]
    /\ SendCompletes(w)
    /\ UNCHANGED <<scanner, statusCode, statusChannel, ImageStream, chans, stopDecodeCh, wg, dec,
                   bodyOpen, timer, opts, panicked, nFrames, nResets>>

\* case StartStream: if status is Playing, continue; else setStatusCode(Playing)
\* and go on to the GET.
startFetching_StartStream(s) ==
    /\ panicked = "none"
    /\ sup[s].pc = "handle" /\ sup[s].cmd = "StartStream"
    /\ IF statusCode = "Playing"
           THEN /\ sup' = [sup EXCEPT ![s].pc = "select", ![s].cmd = "none"]
                /\ UNCHANGED <<statusCode, statusChannel>>
           ELSE /\ sup' = [sup EXCEPT ![s].pc = "get"]
                /\ setStatusCode("Playing")
    /\ UNCHANGED <<scanner, ImageStream, chans, stopDecodeCh, wg, dec, bodyOpen, caller, timers,
                   timer, opts, panicked, nFrames, nResets>>

\* res, err = m.getStreamResponse(): on success wg.Add(1) and
\* go m.decodeStream(reader, boundary); on failure setStatusCode(Error), return.
startFetching_get(s, ok) ==
    /\ panicked = "none"
    /\ sup[s].pc = "get"
    /\ IF ok
           THEN LET d == NumDecoders + 1 IN
                /\ sup' = [sup EXCEPT ![s].pc = "select", ![s].cmd = "none", ![s].res = d]
                /\ bodyOpen' = bodyOpen \cup {d}
                /\ wg' = wg + 1
                /\ dec' = [dec EXCEPT ![d] = [pc |-> "select", cmd |-> "none",
                                               timerStarted |-> FALSE, frame |-> 0,
                                               src |-> "open"]]
                /\ UNCHANGED <<statusCode, statusChannel>>
           ELSE /\ sup' = [sup EXCEPT ![s].pc = "defer", ![s].res = 0]
                /\ setStatusCode("Error")
                /\ UNCHANGED <<bodyOpen, wg, dec>>
    /\ UNCHANGED <<scanner, ImageStream, chans, stopDecodeCh, caller, timers, timer, opts, panicked,
                   nFrames, nResets>>

\* case StopStream: close(m.stopDecodeCh), then m.wg.Wait()
startFetching_StopStream(s) ==
    /\ panicked = "none"
    /\ sup[s].pc = "handle" /\ sup[s].cmd = "StopStream"
    /\ IF stopDecodeCh = "open"
           THEN /\ stopDecodeCh' = "closed"
                /\ sup' = [sup EXCEPT ![s].pc = "wait"]
                /\ UNCHANGED panicked
           ELSE /\ panicked' = "StopStream: close of closed channel"
                /\ UNCHANGED <<stopDecodeCh, sup>>
    /\ UNCHANGED <<scanner, statusCode, statusChannel, ImageStream, chans, wg, dec, bodyOpen, caller,
                   timers, timer, opts, nFrames, nResets>>

\* m.wg.Wait() returns once the counter is zero; then return (run the defer).
startFetching_wait(s) ==
    /\ panicked = "none"
    /\ sup[s].pc = "wait"
    /\ wg = 0
    /\ sup' = [sup EXCEPT ![s].pc = "defer"]
    /\ UNCHANGED <<scanner, statusCode, statusChannel, ImageStream, chans, stopDecodeCh, wg, dec,
                   bodyOpen, caller, timers, timer, opts, panicked, nFrames, nResets>>

\* case PauseStream: m.setStatusCode(StatusPaused)
startFetching_PauseStream(s) ==
    /\ panicked = "none"
    /\ sup[s].pc = "handle" /\ sup[s].cmd = "PauseStream"
    /\ setStatusCode("Paused")
    /\ sup' = [sup EXCEPT ![s].pc = "select", ![s].cmd = "none"]
    /\ UNCHANGED <<scanner, ImageStream, chans, stopDecodeCh, wg, dec, bodyOpen, caller, timers,
                   timer, opts, panicked, nFrames, nResets>>

\* case ResumeStream: m.setStatusCode(StatusPlaying)
startFetching_ResumeStream(s) ==
    /\ panicked = "none"
    /\ sup[s].pc = "handle" /\ sup[s].cmd = "ResumeStream"
    /\ setStatusCode("Playing")
    /\ sup' = [sup EXCEPT ![s].pc = "select", ![s].cmd = "none"]
    /\ UNCHANGED <<scanner, ImageStream, chans, stopDecodeCh, wg, dec, bodyOpen, caller, timers,
                   timer, opts, panicked, nFrames, nResets>>

\* The deferred function, first part: if res != nil { res.Body.Close() };
\* close(m.ImageStream) -- the channel the field points to NOW.
startFetching_defer(s) ==
    /\ panicked = "none"
    /\ sup[s].pc = "defer"
    /\ bodyOpen' = bodyOpen \ {sup[s].res}
    /\ IF chans[ImageStream].open
           THEN /\ chans' = [chans EXCEPT ![ImageStream].open = FALSE]
                /\ sup' = [sup EXCEPT ![s].pc = "defer_status"]
                /\ UNCHANGED panicked
           ELSE /\ panicked' = "startFetching: close of closed channel"
                /\ UNCHANGED <<chans, sup>>
    /\ UNCHANGED <<scanner, statusCode, statusChannel, ImageStream, stopDecodeCh, wg, dec, caller,
                   timers, timer, opts, nFrames, nResets>>

\* The deferred function, last statement: m.setStatusCode(StatusStopped)
startFetching_deferStatus(s) ==
    /\ panicked = "none"
    /\ sup[s].pc = "defer_status"
    /\ setStatusCode("Stopped")
    /\ sup' = [sup EXCEPT ![s].pc = "done"]
    /\ UNCHANGED <<scanner, ImageStream, chans, stopDecodeCh, wg, dec, bodyOpen, caller, timers,
                   timer, opts, panicked, nFrames, nResets>>

\* ------------------------------------------------ decodeStream (reader)
\* What one pass of the default branch reads from the byte stream:
\*   eof        ReadString returns io.EOF (break: leaves the select only)
\*   lineErr    ReadString fails otherwise
\*   line       a line without the boundary
\*   hdrErr     readImageHeaders fails on a transport error
\*   hdrEof     readImageHeaders fails because the stream ends in the headers
\*   payErr     io.ReadFull fails on a transport error
\*   payEof     io.ReadFull fails because the stream ends in the payload
\*   empty      Content-Length 0 or missing: processAndSendImage returns at once
\*   decodeErr  jpeg.Decode rejects the payload
\*   frame      jpeg.Decode yields an image
ReadOutcomes ==
    {"eof", "lineErr", "line", "hdrErr", "hdrEof", "payErr", "payEof", "empty",
     "decodeErr", "frame"}

\* The outcomes that set the status to Error if a rejected payload did too.
ErrorOutcomes_DecodeFatal == {"lineErr", "hdrErr", "hdrEof", "payErr", "payEof", "decodeErr"}

\* The outcomes after which decodeStream calls setStatusCode(StatusError).
ErrorOutcomes == {"lineErr", "hdrErr", "hdrEof", "payErr", "payEof"}

\* The outcomes in which the byte source is found exhausted, and the others.
EndOutcomes == {"eof", "hdrEof", "payEof"}
LiveOutcomes == ReadOutcomes \ EndOutcomes

\* The byte source (bufio.Reader over res.Body) of a reader: "open", or where
\* it was exhausted.  An exhausted source yields io.EOF on every later read.
EndOfSource(o) ==
    CASE o = "eof" -> "endLine"
      [] o = "hdrEof" -> "endHeaders"
      [] o = "payEof" -> "endPayload"
      [] OTHER -> "open"

\* defer m.wg.Done(); return
decodeStream_exit(d) ==
    /\ dec' = [dec EXCEPT ![d].pc = "done"]
    /\ wg' = wg - 1

\* The select at the head of the loop, case <-m.stopDecodeCh: return.
decodeStream_stop(d) ==
    /\ panicked = "none"
    /\ dec[d].pc = "select"
    /\ stopDecodeCh = "closed"
    /\ decodeStream_exit(d)
    /\ UNCHANGED <<scanner, statusCode, statusChannel, ImageStream, chans, stopDecodeCh, sup,
                   bodyOpen, caller, timers, timer, opts, panicked, nFrames, nResets>>

\* The select at the head of the loop, case control := <-m.internalCH.
decodeStream_recv(d, w) ==
    /\ panicked = "none"
    /\ dec[d].pc = "select"
    /\ w \in Senders
    /\ dec' = [dec EXCEPT ![d].pc = "handle", ![d].cmd = SenderCmd(w)]
    /\ SendCompletes(w)
    /\ UNCHANGED <<scanner, statusCode, statusChannel, ImageStream, chans, stopDecodeCh, wg, sup,
                   bodyOpen, timer, opts, panicked, nFrames, nResets>>

\* switch control: PauseStream and ResumeStream set the status; StartStream
\* and StopStream match no case and are dropped.
decodeStream_handle(d) ==
    /\ panicked = "none"
    /\ dec[d].pc = "handle"
    /\ dec' = [dec EXCEPT ![d].pc = "select", ![d].cmd = "none"]
    /\ IF dec[d].cmd = "PauseStream" THEN setStatusCode("Paused")
       ELSE IF dec[d].cmd = "ResumeStream" THEN setStatusCode("Playing")
       ELSE UNCHANGED <<statusCode, statusChannel>>
    /\ UNCHANGED <<scanner, ImageStream, chans, stopDecodeCh, wg, sup, bodyOpen, caller, timers,
                   timer, opts, panicked, nFrames, nResets>>

\* The default branch without the check of the status.
decodeStream_default_NoPauseCheck(d) ==
    /\ panicked = "none"
    /\ dec[d].pc = "select"
    /\ stopDecodeCh = "open"
    /\ Senders = {}
    /\ dec' = [dec EXCEPT ![d].pc = "read"]
    /\ UNCHANGED <<scanner, statusCode, statusChannel, ImageStream, chans, stopDecodeCh, wg, sup,
                   bodyOpen, caller, timers, timer, opts, panicked, nFrames, nResets>>

\* The select at the head of the loop, default (taken only when no other case
\* is ready): if the status is Paused, sleep and continue (no change of
\* state); otherwise go on to reader.ReadString.
decodeStream_default(d) ==
    /\ panicked = "none"
    /\ dec[d].pc = "select"
    /\ stopDecodeCh = "open"
    /\ Senders = {}
    /\ statusCode # "Paused"
    /\ dec' = [dec EXCEPT ![d].pc = "read"]
    /\ UNCHANGED <<scanner, statusCode, statusChannel, ImageStream, chans, stopDecodeCh, wg, sup,
                   bodyOpen, caller, timers, timer, opts, panicked, nFrames, nResets>>

\* ReadString, readImageHeaders, io.ReadFull and jpeg.Decode of one pass: all
\* local to the reader.  A read error sets the status to Error and the loop
\* goes on (break and continue both lead back to the select).  Once the byte
\* source is exhausted every pass ends at ReadString with io.EOF.
decodeStream_read(d, o) ==
    /\ panicked = "none"
    /\ dec[d].pc = "read"
    /\ o \in ReadOutcomes
    /\ dec[d].src # "open" => o = "eof"
    /\ o = "frame" => nFrames < MaxFrames
    /\ nFrames' = IF o = "frame" THEN nFrames + 1 ELSE nFrames
    /\ dec' = [dec EXCEPT ![d].pc = IF o = "frame" THEN "send" ELSE "select",
                          ![d].frame = IF o = "frame" THEN nFrames + 1 ELSE 0,
                          ![d].src = IF @ = "open" THEN EndOfSource(o) ELSE @]
    /\ IF o \in ErrorOutcomes
           THEN setStatusCode("Error")
           ELSE UNCHANGED <<statusCode, statusChannel>>
    /\ UNCHANGED <<scanner, ImageStream, chans, stopDecodeCh, wg, sup, bodyOpen, caller, timers,
                   timer, opts, panicked, nResets>>

\* processAndSendImage with a send that does not look at the capacity.
processAndSendImage_Unbounded(d) ==
    /\ panicked = "none"
    /\ dec[d].pc = "send"
    /\ chans[ImageStream].open
    /\ chans' = [chans EXCEPT ![ImageStream].buf = Append(@, dec[d].frame)]
    /\ dec' = [dec EXCEPT ![d].pc = "select", ![d].frame = 0]
    /\ UNCHANGED <<scanner, statusCode, statusChannel, ImageStream, stopDecodeCh, wg, sup, bodyOpen,
                   caller, timers, timer, opts, panicked, nFrames, nResets>>

\* processAndSendImage with a send that overwrites an undrained image.
processAndSendImage_Overwrite(d) ==
    /\ panicked = "none"
    /\ dec[d].pc = "send"
    /\ chans[ImageStream].open
    /\ chans' = [chans EXCEPT ![ImageStream].buf = <<dec[d].frame>>]
    /\ dec' = [dec EXCEPT ![d].pc = "select", ![d].frame = 0]
    /\ UNCHANGED <<scanner, statusCode, statusChannel, ImageStream, stopDecodeCh, wg, sup, bodyOpen,
                   caller, timers, timer, opts, panicked, nFrames, nResets>>

\* processAndSendImage with a timer armed by every image it sends.
processAndSendImage_ArmEvery(d) ==
    /\ panicked = "none"
    /\ dec[d].pc = "send"
    /\ chans[ImageStream].open
    /\ UNCHANGED opts
    /\ IF Len(chans[ImageStream].buf) < ImageStreamCap
           THEN /\ chans' = [chans EXCEPT ![ImageStream].buf = Append(@, dec[d].frame)]
                /\ IF opts > 0 /\ NumTimers < Cardinality(TimerIds)
                       THEN NewTimer(timers)
                       ELSE UNCHANGED <<timers, timer>>
                /\ dec' = [dec EXCEPT ![d].pc = "select", ![d].frame = 0,
                                      ![d].timerStarted = TRUE]
           ELSE /\ dec' = [dec EXCEPT ![d].pc = "select", ![d].frame = 0]
                /\ UNCHANGED <<chans, timers, timer>>
    /\ UNCHANGED <<scanner, statusCode, statusChannel, ImageStream, stopDecodeCh, wg, sup,
                   bodyOpen, caller, panicked, nFrames, nResets>>

\* processAndSendImage, the select: a non-blocking send to m.ImageStream.  A
\* send on a closed channel panics; a full channel drops the image; the first
\* image sent by this reader arms the auto-stop timer when AutoStopTimer > 0.
processAndSendImage(d) ==
    /\ panicked = "none"
    /\ dec[d].pc = "send"
    /\ UNCHANGED opts
    /\ IF ~chans[ImageStream].open
           THEN /\ panicked' = "processAndSendImage: send on closed channel"
                /\ UNCHANGED <<chans, dec, timers, timer>>
           ELSE /\ UNCHANGED panicked
                /\ IF Len(chans[ImageStream].buf) < ImageStreamCap
                       THEN /\ chans' = [chans EXCEPT ![ImageStream].buf =
                                                           Append(@, dec[d].frame)]
                            /\ IF ~dec[d].timerStarted /\ opts > 0
                                   THEN /\ NewTimer(timers)
                                        /\ dec' = [dec EXCEPT ![d].pc = "select",
                                                              ![d].frame = 0,
                                                              ![d].timerStarted = TRUE]
                                   ELSE /\ dec' = [dec EXCEPT ![d].pc = "select",
                                                              ![d].frame = 0]
                                        /\ UNCHANGED <<timers, timer>>
                       ELSE /\ dec' = [dec EXCEPT ![d].pc = "select", ![d].frame = 0]
                            /\ UNCHANGED <<chans, timers, timer>>
    /\ UNCHANGED <<scanner, statusCode, statusChannel, ImageStream, stopDecodeCh, wg, sup, bodyOpen,
                   caller, nFrames, nResets>>

\* ------------------------------------------------------------ environment
\* The consumer of a frame channel (for img := range ch) takes the image.
Consume(c) ==
    /\ panicked = "none"
    /\ chans[c].buf # <<>>
    /\ chans' = [chans EXCEPT ![c].buf = Tail(@)]
    /\ UNCHANGED <<scanner, statusCode, statusChannel, ImageStream, stopDecodeCh, wg, sup, dec,
                   bodyOpen, caller, timers, timer, opts, panicked, nFrames, nResets>>

\* An observer of GetStatusChannel() takes the published status.
ObserveStatus ==
    /\ panicked = "none"
    /\ statusChannel # <<>>
    /\ statusChannel' = Tail(statusChannel)
    /\ UNCHANGED <<scanner, statusCode, ImageStream, chans, stopDecodeCh, wg, sup, dec, bodyOpen,
                   caller, timers, timer, opts, panicked, nFrames, nResets>>

\* ------------------------------------------- the scan of the byte stream
\* The bytes of decodeStream's reader, one pass of its default branch after
\* the other: reader.ReadString('\n') until a line contains the boundary,
\* readImageHeaders, io.ReadFull of Content-Length bytes.  A byte is a
\* string; "Content-Length:" stands for the fifteen bytes of that text.
LF == "LF"
CR == "CR"
SP == " "
ContentLengthName == "Content-Length:"
DigitChars == <<"0", "1", "2", "3", "4", "5", "6", "7", "8", "9">>

IsDigit(b) == \E i \in 1 .. Len(DigitChars) : DigitChars[i] = b
DigitVal(b) == (CHOOSE i \in 1 .. Len(DigitChars) : DigitChars[i] = b) - 1

\* The decimal text of n, as the server writes it.
RECURSIVE FormatInt(_)
FormatInt(n) ==
    IF n < 10 THEN <<DigitChars[n + 1]>>
    ELSE Append(FormatInt(n \div 10), DigitChars[(n % 10) + 1])

\* strings.Contains(line, boundary)
Contains(line, sub) ==
    \E i \in 1 .. (Len(line) - Len(sub) + 1) : SubSeq(line, i, i + Len(sub) - 1) = sub

\* strings.HasPrefix(line, prefix)
HasPrefix(line, prefix) ==
    Len(line) >= Len(prefix) /\ SubSeq(line, 1, Len(prefix)) = prefix

\* strings.TrimSpace(line) == ""
IsBlank(line) == \A i \in 1 .. Len(line) : line[i] \in {SP, CR, LF}

\* The index of the first '\n' of bytes, or 0.
IndexLF(bytes) ==
    IF \E i \in 1 .. Len(bytes) : bytes[i] = LF
        THEN CHOOSE i \in 1 .. Len(bytes) :
                 bytes[i] = LF /\ \A j \in 1 .. (i - 1) : bytes[j] # LF
        ELSE 0

\* The value of the longest run of digits at the head of bytes (acc so far).
RECURSIVE ScanDigits(_, _)
ScanDigits(bytes, acc) ==
    IF bytes # <<>> /\ IsDigit(Head(bytes))
        THEN ScanDigits(Tail(bytes), 10 * acc + DigitVal(Head(bytes)))
        ELSE acc

RECURSIVE SkipSpaces(_)
SkipSpaces(bytes) ==
    IF bytes # <<>> /\ Head(bytes) = SP THEN SkipSpaces(Tail(bytes)) ELSE bytes

\* fmt.Sscanf(headerLine, "Content-Length: %d", &contentLength): the name,
\* any spaces, then a decimal number; without a digit the variable keeps old.
Sscanf(headerLine, old) ==
    LET after == SkipSpaces(SubSeq(headerLine, 2, Len(headerLine))) IN
    IF after # <<>> /\ IsDigit(Head(after)) THEN ScanDigits(after, 0) ELSE old

\* The boundary tokens ("--" + the boundary parameter) and the bytes a
\* payload is made of: line feeds and the bytes of the tokens among them.
BoundaryTokens == {<<"-", "-", "f">>, <<"-", "-", "f", "f">>}
PayloadBytes == {LF, "-", "f", "x"}

RECURSIVE SeqsUpTo(_, _)
SeqsUpTo(S, n) ==
    IF n = 0 THEN {<<>>}
    ELSE LET shorter == SeqsUpTo(S, n - 1) IN
         shorter \cup {Append(q, b) : q \in shorter, b \in S}

\* A well-formed part on the wire: boundary line, header lines, blank line,
\* the payload, CR LF.
WirePart(token, contentType, payload) ==
    token \o <<CR, LF>>
      \o (IF contentType THEN <<"Content-Type: image/jpeg", CR, LF>> ELSE <<>>)
      \o <<ContentLengthName, SP>> \o FormatInt(Len(payload)) \o <<CR, LF>>
      \o <<CR, LF>>
      \o payload \o <<CR, LF>>

\* The part that follows the part under scan on every stream.
NextPayload == <<"x">>

\* What the scan is given: a boundary token, a part (with or without a
\* Content-Type header before its Content-Length) and the part after it.
ScannerInputs ==
    [token : BoundaryTokens, contentType : BOOLEAN,
     payload : SeqsUpTo(PayloadBytes, MaxPayload)]

WireStream(in) ==
    WirePart(in.token, in.contentType, in.payload)
        \o WirePart(in.token, FALSE, NextPayload)

\* decodeStream is started on a fresh bufio.Reader over the response body.
Scan_init ==
    \E in \in ScannerInputs :
        scanner = [pc |-> "line", given |-> in, rest |-> WireStream(in), buf |-> <<>>,
                   contentLength |-> 0, out |-> <<>>]

sessionVars == <<statusCode, statusChannel, ImageStream, chans, stopDecodeCh, wg, sup, dec,
                 bodyOpen, caller, timers, timer, opts, panicked, nFrames, nResets>>

\* The current read cannot be served from the buffer.
NeedsBytes ==
    \/ scanner.pc \in {"line", "headers"} /\ IndexLF(scanner.buf) = 0
    \/ scanner.pc = "payload" /\ Len(scanner.buf) < scanner.contentLength

\* The byte source hands the next k bytes to the bufio.Reader (one Read of
\* the response body: a chunk of any size).
Scan_fill(k) ==
    /\ scanner.pc \in {"line", "headers", "payload"}
    /\ NeedsBytes
    /\ k \in 1 .. Len(scanner.rest)
    /\ scanner' = [scanner EXCEPT !.buf = @ \o SubSeq(scanner.rest, 1, k),
                                  !.rest = SubSeq(@, k + 1, Len(@))]
    /\ UNCHANGED sessionVars

\* line, err := reader.ReadString('\n'); io.EOF ends the scan; a line that
\* contains the boundary starts a part.
Scan_line ==
    /\ scanner.pc = "line"
    /\ LET i == IndexLF(scanner.buf) IN
        IF i = 0
            THEN /\ scanner.rest = <<>>
                 /\ scanner' = [scanner EXCEPT !.pc = "eof", !.buf = <<>>]
            ELSE LET line == SubSeq(scanner.buf, 1, i) IN
                 scanner' = [scanner EXCEPT
                                !.buf = SubSeq(@, i + 1, Len(@)),
                                !.pc = IF Contains(line, scanner.given.token)
                                           THEN "headers" ELSE "line",
                                !.contentLength = 0]
    /\ UNCHANGED sessionVars

\* readImageHeaders, one turn of its loop: a blank line ends the headers, a
\* Content-Length line sets contentLength, the end of the stream is an error.
Scan_header ==
    /\ scanner.pc = "headers"
    /\ LET i == IndexLF(scanner.buf) IN
        IF i = 0
            THEN /\ scanner.rest = <<>>
                 /\ scanner' = [scanner EXCEPT !.pc = "error", !.buf = <<>>]
            ELSE LET headerLine == SubSeq(scanner.buf, 1, i) IN
                 scanner' = [scanner EXCEPT
                                !.buf = SubSeq(@, i + 1, Len(@)),
                                !.pc = IF IsBlank(headerLine) THEN "payload" ELSE "headers",
                                !.contentLength =
                                    IF ~IsBlank(headerLine)
                                       /\ HasPrefix(headerLine, <<ContentLengthName>>)
                                        THEN Sscanf(headerLine, @) ELSE @]
    /\ UNCHANGED sessionVars

\* A read of the payload that takes what the buffer holds at the moment
\* (one Read instead of io.ReadFull).
Scan_payload_ShortRead ==
    /\ scanner.pc = "payload"
    /\ LET n == IF Len(scanner.buf) < scanner.contentLength
                    THEN Len(scanner.buf) ELSE scanner.contentLength IN
        scanner' = [scanner EXCEPT !.buf = SubSeq(@, n + 1, Len(@)),
                                   !.out = Append(@, SubSeq(scanner.buf, 1, n)),
                                   !.pc = "line"]
    /\ UNCHANGED sessionVars

\* jpegData := make([]byte, contentLength); io.ReadFull(reader, jpegData);
\* m.processAndSendImage(jpegData, ...): exactly contentLength bytes, or an
\* error when the stream ends before.
Scan_payload ==
    /\ scanner.pc = "payload"
    /\ LET n == scanner.contentLength IN
        IF Len(scanner.buf) >= n
            THEN scanner' = [scanner EXCEPT !.buf = SubSeq(@, n + 1, Len(@)),
                                            !.out = Append(@, SubSeq(scanner.buf, 1, n)),
                                            !.pc = "line"]
            ELSE /\ scanner.rest = <<>>
                 /\ scanner' = [scanner EXCEPT !.pc = "error", !.buf = <<>>]
    /\ UNCHANGED sessionVars

\* ------------------------------------------------------------------ Next
\* The steps of the caller's Start, Stop, Pause and Resume.
CallerNext ==
    \/ Start_close
    \/ Start_spawn
    \/ Stop
    \/ Pause
    \/ Resume

\* The steps of the caller's ResetTimer and the expiry of a timer.
TimerNext ==
    \/ \E duration \in ResetChoices : ResetTimer_stop(duration)
    \/ ResetTimer_arm
    \/ \E t \in TimerIds : TimerFire(t)

\* The steps of the goroutine startFetching s.
startFetching(s) ==
    \/ \E w \in Senders : startFetching_recv(s, w)
    \/ startFetching_StartStream(s)
    \/ \E ok \in BOOLEAN : startFetching_get(s, ok)
    \/ startFetching_StopStream(s)
    \/ startFetching_wait(s)
    \/ startFetching_PauseStream(s)
    \/ startFetching_ResumeStream(s)
    \/ startFetching_defer(s)
    \/ startFetching_deferStatus(s)

\* The steps of the goroutine decodeStream d while its stream lasts.
decodeStream(d) ==
    \/ decodeStream_stop(d)
    \/ \E w \in Senders : decodeStream_recv(d, w)
    \/ decodeStream_handle(d)
    \/ decodeStream_default(d)
    \/ \E o \in LiveOutcomes : decodeStream_read(d, o)
    \/ processAndSendImage(d)

\* A pass of the reader d that finds its byte source exhausted.
decodeStream_end(d) == \E o \in EndOutcomes : decodeStream_read(d, o)

\* The steps of the goroutines startFetching and decodeStream while the
\* stream lasts (a camera's stream has no end).
GoroutineNext ==
    \/ \E s \in SupIds : startFetching(s)
    \/ \E d \in DecIds : decodeStream(d)

StreamEnds == \E d \in DecIds : decodeStream_end(d)

\* The whole program with its environment.
Next ==
    \/ CallerNext
    \/ TimerNext
    \/ GoroutineNext
    \/ StreamEnds
    \/ \E c \in ChanIds : Consume(c)
    \/ ObserveStatus

SpecAll == Init /\ [][Next]_vars

\* A session configured with the auto-stop disabled (AutoStopTimer: -1, as in
\* the viewer example) whose caller never calls ResetTimer: no timer exists.
\* The status channel is not read (reading it is optional).
InitDisabled == Init /\ opts <= 0

NextSession ==
    \/ CallerNext
    \/ GoroutineNext
    \/ \E c \in ChanIds : Consume(c)

Spec == InitDisabled /\ [][NextSession]_vars

\* A session with the auto-stop timer, driven as in Example3: the caller
\* calls Start, Stop and ResetTimer (never Pause or Resume), the GET succeeds
\* and the stream is healthy (every pass reads a line without the boundary
\* or a part that decodes).
HealthyOutcomes == {"line", "frame"}

NextWatchdog ==
    \/ Start_close
    \/ Start_spawn
    \/ Stop
    \/ TimerNext
    \/ \E s \in SupIds :
        \/ \E w \in Senders : startFetching_recv(s, w)
        \/ startFetching_StartStream(s)
        \/ startFetching_get(s, TRUE)
        \/ startFetching_StopStream(s)
        \/ startFetching_wait(s)
        \/ startFetching_defer(s)
        \/ startFetching_deferStatus(s)
    \/ \E d \in DecIds :
        \/ decodeStream_stop(d)
        \/ \E w \in Senders : decodeStream_recv(d, w)
        \/ decodeStream_handle(d)
        \/ decodeStream_default(d)
        \/ \E o \in HealthyOutcomes : decodeStream_read(d, o)
        \/ processAndSendImage(d)
    \/ \E c \in ChanIds : Consume(c)

SpecWatchdog == Init /\ [][NextWatchdog]_vars

\* A session object used for one Start, as the README and the examples use
\* it (NewMjpeg, Start, ..., Stop), with everything else free: any
\* configuration, Pause, Resume, Stop and ResetTimer at any time, timers
\* expiring, a failing GET, every outcome of a read of a stream that lasts,
\* and a consumer of the frames.
NextOnce ==
    \/ NumStarts = 0 /\ Start_close
    \/ Start_spawn
    \/ Stop
    \/ Pause
    \/ Resume
    \/ TimerNext
    \/ GoroutineNext
    \/ \E c \in ChanIds : Consume(c)

SpecOnce == Init /\ [][NextOnce]_vars

\* A session configured with an auto-stop duration D > 0 (as in Example3 of
\* the example program) whose caller never calls ResetTimer: the only timers
\* are those armed by a first delivered image.  One Start; Stop, Pause and
\* Resume at any time, a failing GET, a stream that lasts, a consumer.
InitEnabled == Init /\ opts > 0

NextAutoStop ==
    \/ NumStarts = 0 /\ Start_close
    \/ Start_spawn
    \/ Stop
    \/ Pause
    \/ Resume
    \/ \E t \in TimerIds : TimerFire(t)
    \/ GoroutineNext
    \/ \E c \in ChanIds : Consume(c)

SpecAutoStop == InitEnabled /\ [][NextAutoStop]_vars

\* A session used for one Start, auto-stop disabled, with an observer that
\* reads the status channel (the loop over GetStatusChannel() of the README)
\* at its own pace.
NextObserved ==
    \/ NumStarts = 0 /\ Start_close
    \/ Start_spawn
    \/ Stop
    \/ Pause
    \/ Resume
    \/ GoroutineNext
    \/ \E c \in ChanIds : Consume(c)
    \/ ObserveStatus

SpecObserved == InitDisabled /\ [][NextObserved]_vars

\* A session, auto-stop disabled, that is started once and then left alone
\* (no Stop, Pause or Resume) while its frames are consumed and its status
\* is observed, and whose stream may end: at a line, inside the headers of a part or inside its
\* payload.
NextUnattended ==
    \/ NumStarts = 0 /\ Start_close
    \/ Start_spawn
    \/ \E s \in SupIds :
        \/ \E w \in Senders : startFetching_recv(s, w)
        \/ startFetching_StartStream(s)
        \/ \E ok \in BOOLEAN : startFetching_get(s, ok)
        \/ startFetching_defer(s)
        \/ startFetching_deferStatus(s)
    \/ \E d \in DecIds :
        \/ decodeStream_default(d)
        \/ \E o \in ReadOutcomes : decodeStream_read(d, o)
        \/ processAndSendImage(d)
    \/ \E c \in ChanIds : Consume(c)
    \/ ObserveStatus

\* The Go scheduler runs every goroutine that can take a step: weak fairness
\* for each startFetching and each decodeStream goroutine.  A select chooses
\* at random among its ready cases, so a case that is ready again and again
\* is taken: strong fairness for the stop case and the default branch of the
\* reader's select.  The caller and the consumer are free to do nothing.
GoroutineFairness ==
    /\ \A s \in SupIds : WF_vars(startFetching(s))
    /\ \A d \in DecIds : /\ WF_vars(decodeStream(d) \/ decodeStream_end(d))
                          /\ SF_vars(decodeStream_stop(d))
                          /\ SF_vars(decodeStream_default(d))

SpecUnattended == InitDisabled /\ [][NextUnattended]_vars /\ GoroutineFairness

\* The scan of one reader over every stream of ScannerInputs, the byte
\* source handing over its bytes in chunks of any size.
InitScan == NewMjpeg /\ opts <= 0 /\ Scan_init

NextScan ==
    \/ \E k \in 1 .. Len(scanner.rest) : Scan_fill(k)
    \/ Scan_line
    \/ Scan_header
    \/ Scan_payload

SpecScan == InitScan /\ [][NextScan]_vars

TypeOK ==
    /\ statusCode \in StatusCodes
    /\ Len(statusChannel) <= StatusChannelCap
    /\ ImageStream \in {NilChan} \cup ChanIds
    /\ stopDecodeCh \in {"open", "closed"}
    /\ wg \in 0 .. MaxStarts
    /\ bodyOpen \subseteq DecIds
    /\ timer \in {0} \cup TimerIds
    /\ nFrames \in 0 .. MaxFrames

\* =================================================================
\* Claims
\* =================================================================
OpenChans == {c \in ChanIds : chans[c].open}

\* C1: in every reachable state at most one reader (decodeStream) task is
\* active for the session.
C1_AtMostOneReader == Cardinality(LiveDecs) <= 1

\* A step of a call of Start that was issued while the status was Playing:
\* its close, its make-and-spawn, or its return.
StartWhilePlayingStep ==
    /\ caller' # caller
    /\ IF caller.pc = "idle"
           THEN caller'.cmd = "StartStream" /\ caller'.at = "Playing"
           ELSE caller.cmd = "StartStream" /\ caller.at = "Playing"

\* C2: a call of Start issued while the status is Playing is a no-op: every
\* step of the call leaves the status, the set of live goroutines and the
\* set of open frame channels as they were.
C2_StartWhilePlayingNoOp ==
    [][StartWhilePlayingStep =>
          /\ statusCode' = statusCode
          /\ LiveSups' = LiveSups
          /\ LiveDecs' = LiveDecs
          /\ OpenChans' = OpenChans]_vars

\* The goroutine (supervisor or reader) that finishes handling command cmd in
\* this step.
Handled(cmd) ==
    \/ \E s \in SupIds : /\ sup[s].pc = "handle" /\ sup[s].cmd = cmd
                         /\ sup'[s].pc # "handle"
    \/ \E d \in DecIds : /\ dec[d].pc = "handle" /\ dec[d].cmd = cmd
                         /\ dec'[d].pc # "handle"

\* A supervisor that was told to stop finishes its teardown in this step.
StopCompleted ==
    \E s \in SupIds : /\ sup[s].pc = "defer_status" /\ sup[s].cmd = "StopStream"
                      /\ sup'[s].pc = "done"

\* A failed GET or a failed read of the stream is reported in this step.
FailureReported ==
    \/ \E s \in SupIds : sup[s].pc = "get" /\ sup'[s].pc = "defer"
    \/ \E d \in DecIds : dec[d].pc = "read" /\ dec'[d].pc = "select"

\* A supervisor whose GET failed finishes its teardown in this step.
FailureTeardown ==
    \E s \in SupIds : /\ sup[s].pc = "defer_status" /\ sup[s].cmd = "StartStream"
                      /\ sup'[s].pc = "done"

\* C3: every change of the status is a transition of the table of section
\* 4.1, caused by the command or the failure the table names for it (with
\* the state list of section 4.1, a failed session may also go from Error to
\* Stopped when its supervisor has unwound).
C3_OnlyTableTransitions ==
    [][statusCode' # statusCode =>
          \/ /\ statusCode \in {"Stopped", "Error"} /\ statusCode' = "Playing"
             /\ Handled("StartStream")
          \/ /\ statusCode = "Playing" /\ statusCode' = "Paused"
             /\ Handled("PauseStream")
          \/ /\ statusCode = "Paused" /\ statusCode' = "Playing"
             /\ Handled("ResumeStream")
          \/ /\ statusCode \in {"Playing", "Paused"} /\ statusCode' = "Stopped"
             /\ StopCompleted
          \/ /\ statusCode' = "Error"
             /\ FailureReported
          \/ /\ statusCode = "Error" /\ statusCode' = "Stopped"
             /\ FailureTeardown]_vars

\* The caller's Stop, issued while the status was Playing or Paused, returns
\* in this step.
StopReturns ==
    /\ caller.pc = "send" /\ caller.cmd = "StopStream"
    /\ caller.at \in {"Playing", "Paused"}
    /\ caller' = Idle

\* C4: when a Stop issued in Playing or Paused returns, the reader has
\* exited, the response body is closed and the status is Stopped.
C4_StopIsSynchronous ==
    [][StopReturns =>
          /\ LiveDecs' = {}
          /\ bodyOpen' = {}
          /\ statusCode' = "Stopped"]_vars

\* The session at rest after n >= 0 complete Start/Stop cycles: Stopped, no
\* call in progress, and every supervisor so far has ended by a Stop.
AtRest ==
    /\ statusCode = "Stopped"
    /\ LiveSups = {} /\ LiveDecs = {}
    /\ caller = Idle /\ Senders = {}
    /\ \A s \in SupIds : sup[s].pc = "done" => sup[s].cmd = "StopStream"

\* C5: a Start/Stop cycle begun from rest behaves as the first one: Start
\* does not fail and finds the stop signal open, so that the reader it
\* spawns runs.
C5_EveryCycleLikeTheFirst ==
    [][(AtRest /\ caller'.cmd = "StartStream") =>
          /\ panicked' = "none"
          /\ stopDecodeCh = "open"]_vars

\* The Stop of a watchdog callback has been received.
WatchdogStopTaken == \E t \in TimerIds : timers[t].st = "done"

\* The session has been torn down (stop signal closed, every goroutine gone)
\* and the caller's Stop is blocked in its send with nobody left to receive.
StopLeftBlocked ==
    /\ caller.pc = "send" /\ caller.cmd = "StopStream"
    /\ stopDecodeCh = "closed"
    /\ LiveSups = {} /\ LiveDecs = {}

\* C6: of a Stop by the watchdog and a Stop by the caller the second is a
\* no-op that returns: the stop signal is not closed a second time and the
\* second Stop is not left blocked.
C6_SecondStopIsNoOp ==
    WatchdogStopTaken =>
        /\ panicked # "StopStream: close of closed channel"
        /\ ~StopLeftBlocked

\* C7: the reader never discards a command it has taken from internalCH: a
\* command it finishes handling is one it acts on (Pause or Resume).
C7_ReaderDiscardsNoCommand ==
    [][\A d \in DecIds :
          (dec[d].pc = "handle" /\ dec'[d].pc = "select")
              => dec[d].cmd \in {"PauseStream", "ResumeStream"}]_vars

\* The reader d attempts a delivery in this step while the frame channel is
\* open and holds an undrained image.
DeliveryToFull(d) ==
    /\ dec[d].pc = "send" /\ dec'[d].pc # "send"
    /\ chans[ImageStream].open
    /\ chans[ImageStream].buf # <<>>

\* C8: a frame channel never holds more than one undelivered image, and a
\* delivery never waits for the consumer: a reader at its delivery step can
\* always take it, and with the channel full it goes on to the next part.
C8_SingleSlotNeverBlocks ==
    /\ \A c \in ChanIds : Len(chans[c].buf) <= ImageStreamCap
    /\ \A d \in DecIds :
          (panicked = "none" /\ dec[d].pc = "send") => ENABLED processAndSendImage(d)

\* C8 witness: one reader has decoded two images; the first is still in the
\* channel, undrained, and the second delivery attempt is over.
C8_Witness ==
    /\ NumStarts = 1 /\ nFrames = 2
    /\ chans[1].open /\ chans[1].buf = <<1>>
    /\ dec[1].pc = "select"

C10_ClosedOnceAtReaderExit ==
    [][/\ panicked' \notin {"Start: close of closed channel",
                            "startFetching: close of closed channel"}
       /\ \A c \in ChanIds :
             (chans[c].open /\ ~chans'[c].open) => LiveDecs' = {}]_vars

\* The Stop of the watchdog callback t is received in this step.
WatchdogStopReceived(t) == timers[t].st = "sending" /\ timers'[t].st = "done"

\* C11: without ResetTimer no watchdog expires before a first image has been
\* delivered, and the Stop a watchdog issues takes effect as a caller's Stop
\* does: it is received by the supervisor, which tears the session down.
C11_WatchdogStopTakesEffect ==
    [][\A t \in TimerIds :
          /\ (timers[t].st = "armed" /\ timers'[t].st = "sending")
                 => \E d \in DecIds : dec[d].timerStarted
          /\ WatchdogStopReceived(t)
                 => \E s \in SupIds : /\ sup[s].pc = "select"
                                      /\ sup'[s].pc = "handle"
                                      /\ sup'[s].cmd = "StopStream"]_vars

\* The caller's ResetTimer returns in this step.
ResetTimerReturns == caller.pc = "reset_arm" /\ caller' = Idle

\* C12: when ResetTimer(newD) returns, the only armed timer is the one it
\* has just made (a watchdog armed before is cancelled), and that timer runs
\* for newD when newD > 0 and for the configured duration otherwise.
C12_ResetCancelsAndRearms ==
    [][ResetTimerReturns =>
          /\ ArmedTimers' = {timer'}
          /\ timers'[timer'].dur = IF caller.arg > 0 THEN caller.arg ELSE opts]_vars

\* The session was started and every goroutine of it has ended: with no
\* further Start the status changes no more.
Settled == NumStarts > 0 /\ LiveSups = {} /\ LiveDecs = {} /\ caller.pc # "start_make"

\* The observer receives a value from the status channel in this step.
ObserverReceives == statusChannel # <<>> /\ statusChannel' = Tail(statusChannel)

\* C13: once the status has stopped changing, the value the observer receives
\* from the status channel is the current status.
C13_ObserverReadsCurrent ==
    [][(Settled /\ ObserverReceives) => Head(statusChannel) = statusCode]_vars

\* The reader d puts an image into the frame channel in this step.
Delivers(d) ==
    /\ dec[d].pc = "send" /\ dec'[d].pc = "select"
    /\ chans'[ImageStream].buf # chans[ImageStream].buf

\* The reader d leaves the select at the head of its loop to read a part.
BeginsPart(d) == dec[d].pc = "select" /\ dec'[d].pc = "read"

\* C14 as claimed: no image is put into the frame channel while the status
\* is Paused, not even that of a part the reader was already processing.
C14_NoDeliveryWhilePaused ==
    [][\A d \in DecIds : Delivers(d) => statusCode # "Paused"]_vars

\* C14 amended: while the status is Paused the reader begins no new part (a
\* part already in progress when the status became Paused is finished), and
\* a handled Resume leaves the status Playing, so that parts are read again.
C14_NoNewPartWhilePaused ==
    [][/\ \A d \in DecIds : BeginsPart(d) => statusCode # "Paused"
       /\ Handled("ResumeStream") => statusCode' = "Playing"]_vars

\* C14 witness: the status is Paused after an image was delivered, nothing
\* is pending on internalCH or the stop signal, and the reader is held at
\* its select.
C14_Witness ==
    /\ statusCode = "Paused"
    /\ dec[1].pc = "select" /\ stopDecodeCh = "open" /\ Senders = {}
    /\ nFrames = 1 /\ chans[1].buf = <<1>>
    /\ sup[1].pc = "select"

\* C15: whenever the status is Error the reader has exited and the response
\* body is closed, and a Start issued in Error does not fail and does not
\* run beside a reader of the failed run.
C15_ErrorLeavesSessionRestartable ==
    /\ statusCode = "Error" => (LiveDecs = {} /\ bodyOpen = {})
    /\ (caller.cmd = "StartStream" /\ caller.at = "Error")
           => (panicked = "none" /\ Cardinality(LiveDecs) <= 1)

\* The reader d finds in this step that its stream has ended inside the
\* headers of a part.
EndsInHeaders(d) == dec[d].src = "open" /\ dec'[d].src = "endHeaders"

\* C16: when the stream ends inside a header block the status becomes Error,
\* no image is delivered afterwards, and the frame channel gets closed.
C16_HeaderEndClosesFrameSource ==
    /\ [][\A d \in DecIds :
             /\ EndsInHeaders(d) => statusCode' = "Error"
             /\ dec[d].src = "endHeaders" => ~Delivers(d)]_vars
    /\ \A d \in DecIds : (dec[d].src = "endHeaders") ~> (OpenChans = {})

\* The reader d reads a part whose payload jpeg.Decode rejects.
DecodeRejected(d) == decodeStream_read(d, "decodeErr")

ExpectedPayloads == <<scanner.given.payload, NextPayload>>

\* C18: whatever the boundary token, the part and the chunks in which the
\* bytes arrive, the scan fails nowhere, the payloads it has extracted so
\* far are those of the parts of the stream in order, each of exactly the
\* declared length, and at the end of the stream it has extracted them all.
C18_ScannerExtractsDeclaredBytes ==
    /\ scanner.pc # "error"
    /\ Len(scanner.out) <= Len(ExpectedPayloads)
    /\ \A i \in 1 .. Len(scanner.out) : scanner.out[i] = ExpectedPayloads[i]
    /\ scanner.pc = "eof" => scanner.out = ExpectedPayloads

\* C18 witness: the scan is over for a part whose two payload bytes are a
\* line feed and a byte of the boundary, under the longer token, and both
\* payloads were extracted.
C18_Witness ==
    /\ scanner.pc = "eof"
    /\ scanner.given.token = <<"-", "-", "f", "f">>
    /\ scanner.given.payload = <<LF, "-">>
    /\ scanner.out = <<<<LF, "-">>, <<"x">>>>

\* The reader d finds in this step that its stream has ended at a line
\* outside any part (ReadString returns io.EOF).
EndsAtBoundary(d) == dec[d].src = "open" /\ dec'[d].src = "endLine"

\* C19: the end of the stream at a part boundary is no error, and the
\* reader stops there: it does not read the exhausted source again.
C19_ReaderStopsAtEndOfStream ==
    [][\A d \in DecIds :
          /\ EndsAtBoundary(d) => statusCode' = statusCode
          /\ dec[d].src = "endLine" => ~BeginsPart(d)]_vars

\* C20: in every reachable state at most one timer is armed.
C20_AtMostOneArmedTimer == Cardinality(ArmedTimers) <= 1

\* The reader d takes a step (any step of its loop).
ReaderStep(d) == dec[d].pc \notin {"none", "done"} /\ dec'[d] # dec[d]

\* C21: no step of a reader changes the status; only the supervisor does.
C21_ReaderLeavesStatusAlone ==
    [][\A d \in DecIds : ReaderStep(d) => statusCode' = statusCode]_vars

\* The reader d ends a delivery attempt in this step without putting its
\* image into the frame channel (the channel was full).
Drops(d) ==
    /\ dec[d].pc = "send" /\ dec'[d].pc = "select"
    /\ chans'[ImageStream].buf = chans[ImageStream].buf

\* C22: with a configured duration D > 0 and no ResetTimer, a reader arms
\* the watchdog exactly once, by the first image it puts into the frame
\* channel and for the configured duration: after any delivery exactly one
\* timer has been made, a delivery made when a timer exists leaves the
\* timers as they are, and a dropped image arms nothing.
C22_ArmedOnceByFirstDelivery ==
    [][\A d \in DecIds :
          /\ Delivers(d) => /\ NumTimers' = 1
                            /\ timer' = 1
                            /\ NumTimers = 0 => timers'[1] = [st |-> "armed", dur |-> opts]
                            /\ NumTimers = 1 => timers' = timers
          /\ Drops(d) => (timers' = timers /\ timer' = timer)]_vars

\* C22 witness: the second image was delivered after the first had been
\* consumed, and the one timer, armed by the first, is still pending.
C22_Witness ==
    /\ nFrames = 2 /\ chans[1].buf = <<2>>
    /\ dec[1].pc = "select" /\ dec[1].timerStarted
    /\ NumTimers = 1 /\ timers[1].st = "armed" /\ timers[1].dur = opts

\* A timer has expired and its callback has called m.Stop().
WatchdogStopIssued == \E t \in TimerIds : timers[t].st \in {"sending", "done"}

\* C23: as long as the auto-stop duration is not positive (configured so,
\* and ResetTimer never called with a positive argument), no watchdog issues
\* a Stop.
C23_DisabledWatchdogNeverStops == opts <= 0 => ~WatchdogStopIssued

\* C24: no reachable state follows a second close of a channel or a send on
\* a closed channel (each of which is a run-time panic).
C24_NoChannelMisuse == panicked = "none"

\* The caller is blocked in the send of a Stop, Pause or Resume while no
\* supervisor and no reader exists to receive it; the blocked caller cannot
\* call Start, so none will ever exist.
CommandBlockedForEver ==
    /\ caller.pc = "send"
    /\ caller.cmd \in {"StopStream", "PauseStream", "ResumeStream"}
    /\ LiveSups = {} /\ LiveDecs = {}

\* C25: a call of Stop, Pause or Resume is never left without anybody to
\* receive its command, whatever the state it is made in.
C25_CommandsAlwaysReturn == ~CommandBlockedForEver

\* The session has returned to Stopped by a Stop of the caller: its
\* supervisor has unwound after a StopStream, and no watchdog has issued one.
StoppedByCaller ==
    /\ statusCode = "Stopped"
    /\ LiveSups = {} /\ LiveDecs = {}
    /\ \E s \in SupIds : sup[s].pc = "done" /\ sup[s].cmd = "StopStream"
    /\ ~WatchdogStopIssued

\* C26: once the session has returned to Stopped by an explicit Stop, no
\* watchdog armed in that cycle is still pending.
C26_NoWatchdogOutlivesItsCycle == StoppedByCaller => ArmedTimers = {}

====
